---- MODULE Spec2Model ----
(***************************************************************************)
(* Model of lmfit/fitter.py: the Fitter session controller (model setter,  *)
(* current_params accessor, guess, fit, plot) and the expression resolver  *)
(* it drives (__assign_deps, __update_paramval).                           *)
(*                                                                         *)
(* A ParameterSet is a sequence of Parameter records (insertion order of   *)
(* the Python mapping).  ParameterSets live in a heap, because the code    *)
(* shares and mutates them by reference (the accessor writes the widget    *)
(* values into the object that current_result.params may also denote).     *)
(* The Model, the widgets, the interpreter and the plotting library are    *)
(* outside fitter.py; they are modelled by what fitter.py relies on.       *)
(***************************************************************************)
EXTENDS Integers, Sequences, FiniteSets, TLC

\* Python's None for an optional number (values in the model are >= 0).
None == -1

\* value a FloatText widget shows when built without one (line 26).
WidgetDefault == 0

\* largest value a user types into a parameter widget.
MaxViewVal == 1

\* largest value passed as a keyword override to fit().
MaxOverride == 1

\* depth at which the interpreter stops a runaway recursion.
RecursionLimit == 4

NoExpr == <<>>
NoAst == <<>>
NoDeps == <<>>
NoResult == [none |-> TRUE]
Ids == 1..3
DataVals == {2, 10}

Parameter(n, v, e) ==
    [name |-> n, value |-> v, expr |-> e, ast |-> NoAst, deps |-> NoDeps]

\* a plain (non-Parameter) keyword argument value
Arg(v) == [value |-> v]

EmptyMap == [n \in {} |-> None]

Names(ps) == {ps[i].name : i \in DOMAIN ps}

Index(ps, n) == CHOOSE i \in DOMAIN ps : ps[i].name = n

Lookup(ps, n) == ps[Index(ps, n)]

\* dict.update: entries of d2 replace or extend those of d1
DictUpdate(d1, d2) ==
    [n \in DOMAIN d1 \cup DOMAIN d2 |-> IF n \in DOMAIN d2 THEN d2[n] ELSE d1[n]]

\* dict(params): name -> Parameter
ParamDict(ps) == [n \in Names(ps) |-> Lookup(ps, n)]

SymSet(st, n, v) == [m \in DOMAIN st \cup {n} |-> IF m = n THEN v ELSE st[m]]

----------------------------------------------------------------------------
(* Expression interpreter (lmfit/asteval.py, lmfit/astutils.py): sources   *)
(* are token sequences of the grammar  e ::= t ("+" t)*,  t ::= name |     *)
(* number | "(" e ")".  The AST of a well-formed source is the list of its *)
(* operands, since "+" is associative.                                     *)

NameTokens == {"a", "b", "c", "d", "z"}
NumTokens == {"1"}

NumVal(tok) == IF tok = "1" THEN 1 ELSE 0

Operand(tok) ==
    IF tok \in NumTokens
    THEN [kind |-> "num", name |-> "", num |-> NumVal(tok)]
    ELSE [kind |-> "name", name |-> tok, num |-> 0]

RECURSIVE ParseFrom(_, _, _, _, _)
ParseFrom(toks, i, depth, want, acc) ==
    IF i > Len(toks)
    THEN [ok |-> (depth = 0 /\ want = "operator"), ast |-> acc]
    ELSE LET tok == toks[i] IN
         CASE tok = "(" /\ want = "operand" ->
                  ParseFrom(toks, i + 1, depth + 1, "operand", acc)
           [] tok = ")" /\ want = "operator" /\ depth > 0 ->
                  ParseFrom(toks, i + 1, depth - 1, "operator", acc)
           [] tok = "+" /\ want = "operator" ->
                  ParseFrom(toks, i + 1, depth, "operand", acc)
           [] tok \in NameTokens \cup NumTokens /\ want = "operand" ->
                  ParseFrom(toks, i + 1, depth, "operator", Append(acc, Operand(tok)))
           [] OTHER -> [ok |-> FALSE, ast |-> NoAst]

\* Interpreter.parse
Parse(toks) == ParseFrom(toks, 1, 0, "operand", <<>>)

RECURSIVE FindNames(_, _)
FindNames(ast, i) ==
    IF i > Len(ast) THEN <<>>
    ELSE IF ast[i].kind = "name"
         THEN <<ast[i].name>> \o FindNames(ast, i + 1)
         ELSE FindNames(ast, i + 1)

\* NameFinder.generic_visit: every name of the AST, in visit order
NameFinderNames(ast) == FindNames(ast, 1)

OperandBound(o, st) == o.kind = "num" \/ o.name \in DOMAIN st

OperandVal(o, st) == IF o.kind = "num" THEN o.num ELSE st[o.name]

RECURSIVE SumFrom(_, _, _)
SumFrom(ast, st, i) ==
    IF i > Len(ast) THEN 0 ELSE OperandVal(ast[i], st) + SumFrom(ast, st, i + 1)

\* Interpreter.run followed by the error check: an unbound name or an
\* addition with None is an error; a bare operand yields its value as is.
Run(ast, st) ==
    IF \E i \in DOMAIN ast : ~OperandBound(ast[i], st)
    THEN [ok |-> FALSE, value |-> None]
    ELSE IF Len(ast) = 1
         THEN [ok |-> TRUE, value |-> OperandVal(ast[1], st)]
         ELSE IF \E i \in DOMAIN ast : OperandVal(ast[i], st) = None
              THEN [ok |-> FALSE, value |-> None]
              ELSE [ok |-> TRUE, value |-> SumFrom(ast, st, 1)]

----------------------------------------------------------------------------
(* Dependency resolver: Fitter.__assign_deps and Fitter.__update_paramval. *)
(* A pass is a record [raised, params, symtable, read, trace]: the error   *)
(* that ended it ("none" if it ran through), the ParameterSet being built, *)
(* the interpreter's symbol table, whether the current_params accessor was *)
(* read (line 200), which synchronises from the widgets, and the steps     *)
(* __update_paramval took, in order: "eval" when line 217 ran the          *)
(* expression of a parameter, "write" when line 221 wrote its value to the *)
(* symbol table, each with the depth of the call that took it.             *)

Event(ev, name, depth) == [ev |-> ev, name |-> name, depth |-> depth]

SetParam(ps, n, p) == [ps EXCEPT ![Index(ps, n)] = p]

FilterDepsAll(names, known, i, acc) == names

RECURSIVE FilterDeps(_, _, _, _)
FilterDeps(names, known, i, acc) ==
    IF i > Len(names) THEN acc
    ELSE IF names[i] \in known /\ ~(\E j \in DOMAIN acc : acc[j] = names[i])
         THEN FilterDeps(names, known, i + 1, Append(acc, names[i]))
         ELSE FilterDeps(names, known, i + 1, acc)

DepsOfNone(ast, known) == <<>>

\* lines 199-202: names of the expression that are keys of current_params
DepsOf(ast, known) == FilterDeps(NameFinderNames(ast), known, 1, <<>>)

RECURSIVE AssignDepsFrom(_, _, _)
AssignDepsFrom(r, known, i) ==
    IF i > Len(r.params) THEN r
    ELSE LET par == r.params[i] IN
         IF par.expr = NoExpr THEN AssignDepsFrom(r, known, i + 1)
         ELSE LET p == Parse(par.expr) IN
              IF ~p.ok THEN [r EXCEPT !.raised = "ParseError"]
              ELSE AssignDepsFrom(
                     [r EXCEPT !.params[i] = [par EXCEPT !.ast = p.ast,
                                                         !.deps = DepsOf(p.ast, known)],
                               !.symtable = SymSet(r.symtable, par.name, par.value),
                               !.read = r.read \/ NameFinderNames(p.ast) # <<>>],
                     known, i + 1)

\* Fitter.__assign_deps(params); known = keys of self.current_params
AssignDeps(params, st, known) ==
    AssignDepsFrom([raised |-> "none", params |-> params, symtable |-> st,
                    read |-> FALSE, trace |-> <<>>], known, 1)

\* line 217: the value run() produced is stored on the parameter
StoreValue(par, v) == [par EXCEPT !.value = v]

RegisterAccumulated(st, name, v) ==
    SymSet(st, name, IF name \in DOMAIN st /\ st[name] # None /\ v # None
                     THEN st[name] + v ELSE v)

RegisterOnce(st, name, v) == IF name \in DOMAIN st THEN st ELSE SymSet(st, name, v)

\* line 221: the parameter's value is written to the symbol table
RegisterValue(st, name, v) == SymSet(st, name, v)

UpdateDepsSkipped(r, deps, j, depth) == r

RECURSIVE UpdateParamvalAt(_, _, _)
RECURSIVE UpdateDepsFrom(_, _, _, _)

UpdateDepsFrom(r, deps, j, depth) ==
    IF j > Len(deps) \/ r.raised # "none" THEN r
    ELSE UpdateDepsFrom(UpdateParamvalAt(r, deps[j], depth), deps, j + 1, depth)

UpdateParamvalAt(r, name, depth) ==
    IF depth > RecursionLimit THEN [r EXCEPT !.raised = "RecursionError"]
    ELSE IF name \notin Names(r.params) THEN [r EXCEPT !.raised = "KeyError"]
    ELSE LET par == Lookup(r.params, name) IN
         IF par.expr = NoExpr
         THEN [r EXCEPT !.symtable = RegisterValue(r.symtable, name, par.value),
                        !.trace = Append(r.trace, Event("write", name, depth))]
         ELSE LET p == IF par.ast = NoAst THEN Parse(par.expr)
                       ELSE [ok |-> TRUE, ast |-> par.ast] IN
              IF ~p.ok THEN [r EXCEPT !.raised = "ParseError"]
              ELSE LET r1 == UpdateDepsFrom(r, par.deps, 1, depth + 1) IN
                   IF r1.raised # "none" THEN r1
                   ELSE LET out == Run(p.ast, r1.symtable)
                            new == StoreValue([Lookup(r1.params, name) EXCEPT !.ast = p.ast],
                                              out.value)
                        IN  IF ~out.ok
                            THEN [r1 EXCEPT !.raised = "EvalError",
                                            !.params = SetParam(r1.params, name, new),
                                            !.trace = Append(r1.trace, Event("eval", name, depth))]
                            ELSE [r1 EXCEPT !.params = SetParam(r1.params, name, new),
                                            !.symtable = RegisterValue(r1.symtable, name, new.value),
                                            !.trace = r1.trace \o <<Event("eval", name, depth),
                                                                    Event("write", name, depth)>>]

UpdateParamvalDeep(r, name) == UpdateParamvalAt(r, name, RecursionLimit)

\* Fitter.__update_paramval(params, name)
UpdateParamval(r, name) == UpdateParamvalAt(r, name, 1)

NeedsUpdateNever(par) == FALSE

\* line 184: which parameters of the guess the loop resolves
NeedsUpdate(par) == par.value = None

\* lines 183-185: the loop over guess.items()
RECURSIVE UpdateLoopFrom(_, _)
UpdateLoopFrom(r, i) ==
    IF i > Len(r.params) \/ r.raised # "none" THEN r
    ELSE IF NeedsUpdate(r.params[i])
         THEN UpdateLoopFrom(UpdateParamval(r, r.params[i].name), i + 1)
         ELSE UpdateLoopFrom(r, i + 1)

\* lines 181-185: one resolution pass over a raw guess
Resolve(guess, st, known) ==
    LET r == AssignDeps(guess, st, known) IN
    IF r.raised # "none" THEN r ELSE UpdateLoopFrom(r, 1)

----------------------------------------------------------------------------
(* The Model capability (lmfit/model.py, lmfit/models.py).  A model        *)
(* declares its independent variables, whether it implements guess(), and  *)
(* its parameters: a free parameter is guessed from the data ("data") or   *)
(* is a constant of the model ("const"); an expression parameter is left   *)
(* without a value by make_params() and by guess().                        *)

(* Every model returns the same parameter names from make_params(),      *)
(* guess() and fit(), and its guess() gives every free parameter a number.  *)

PSpec(n, e, k) == [name |-> n, expr |-> e, kind |-> k]

ModelNames == {"Sum", "Chain", "Line", "Plane", "NoGuess", "BadExpr", "Unbound", "Cycle"}

ModelSpec(m) ==
    CASE m = "Sum" ->
           [independent_vars |-> <<>>, has_guess |-> TRUE, fits |-> TRUE,
            params |-> << PSpec("a", NoExpr, "data"), PSpec("b", NoExpr, "const"),
                          PSpec("c", <<"a", "+", "b">>, "expr") >>]
      [] m = "Chain" ->
           [independent_vars |-> <<>>, has_guess |-> TRUE, fits |-> TRUE,
            params |-> << PSpec("d", <<"c", "+", "1">>, "expr"),
                          PSpec("c", <<"(", "a", "+", "a", ")">>, "expr"),
                          PSpec("a", NoExpr, "data") >>]
      [] m = "Line" ->
           [independent_vars |-> <<"x">>, has_guess |-> TRUE, fits |-> TRUE,
            params |-> << PSpec("a", NoExpr, "data"), PSpec("b", NoExpr, "const") >>]
      [] m = "Plane" ->
           [independent_vars |-> <<"x", "y">>, has_guess |-> TRUE, fits |-> TRUE,
            params |-> << PSpec("a", NoExpr, "data") >>]
      [] m = "NoGuess" ->
           [independent_vars |-> <<>>, has_guess |-> FALSE, fits |-> TRUE,
            params |-> << PSpec("a", NoExpr, "data") >>]
      [] m = "BadExpr" ->
           [independent_vars |-> <<>>, has_guess |-> TRUE, fits |-> FALSE,
            params |-> << PSpec("a", NoExpr, "data"),
                          PSpec("c", <<"(", "a", "+", "1">>, "expr") >>]
      [] m = "Unbound" ->
           [independent_vars |-> <<>>, has_guess |-> TRUE, fits |-> FALSE,
            params |-> << PSpec("a", NoExpr, "data"),
                          PSpec("c", <<"a", "+", "z">>, "expr") >>]
      [] m = "Cycle" ->
           [independent_vars |-> <<>>, has_guess |-> TRUE, fits |-> FALSE,
            params |-> << PSpec("c", <<"d", "+", "1">>, "expr"),
                          PSpec("d", <<"c", "+", "1">>, "expr") >>]

\* make_params() of a model that declares the parameters decl
DeclParams(decl) == [i \in DOMAIN decl |-> Parameter(decl[i].name, None, decl[i].expr)]

\* Model.make_params(): no parameter has a value yet
MakeParams(m) == DeclParams(ModelSpec(m).params)

GuessValue(k, d) == IF k = "data" THEN d ELSE IF k = "const" THEN 3 ELSE None

\* guess(data) of a model that declares the parameters decl
DeclGuess(decl, d) ==
    [i \in DOMAIN decl |-> Parameter(decl[i].name, GuessValue(decl[i].kind, d), decl[i].expr)]

\* Model.guess(data, ...): values for the free parameters
ModelGuess(m, d) == DeclGuess(ModelSpec(m).params, d)

FitValue(k, d) == IF k = "data" THEN d + 1 ELSE IF k = "const" THEN 3 ELSE None

\* the minimizer's best fit: free values from the data, expressions
\* evaluated
FitParams(m, d) ==
    LET ps == ModelSpec(m).params
        raw == [i \in DOMAIN ps |-> Parameter(ps[i].name, FitValue(ps[i].kind, d), ps[i].expr)]
        done == Resolve(raw, EmptyMap, Names(raw)).params
    IN  [i \in DOMAIN done |-> Parameter(done[i].name, done[i].value, done[i].expr)]

\* FitParams for every model and data set of a session
ModelFitTable == [m \in ModelNames |-> [d \in DataVals |-> FitParams(m, d)]]

\* Model.fit(data, **args).params
ModelFit(m, d) == ModelFitTable[m][d]

\* whether Model.fit can return: every independent variable is among the
\* arguments and the expressions of the model can be evaluated
ModelCanFit(m, args) ==
    LET spec == ModelSpec(m) IN
    /\ spec.fits
    /\ \A i \in DOMAIN spec.independent_vars : spec.independent_vars[i] \in DOMAIN args

----------------------------------------------------------------------------
(* The widgets of the IPython form: a map from parameter name to the value *)
(* shown in its FloatText.                                                 *)

\* build_param_widget, for every parameter (lines 22-27, 140-141)
BuildWidgets(ps) ==
    [n \in Names(ps) |-> IF Lookup(ps, n).value # None THEN Lookup(ps, n).value
                         ELSE WidgetDefault]

SyncFromViewSkipped(ps, v, ipy) == ps

\* current_params getter, lines 153-156: widget values into the ParameterSet
SyncFromView(ps, v, ipy) ==
    IF ipy
    THEN [i \in DOMAIN ps |-> IF ps[i].name \in DOMAIN v
                              THEN [ps[i] EXCEPT !.value = v[ps[i].name]]
                              ELSE ps[i]]
    ELSE ps

\* current_params setter, lines 162-164: new values into the widgets
PushToView(ps, v, ipy) ==
    IF ipy THEN [n \in DOMAIN v |-> Lookup(ps, n).value] ELSE v

Fresh(h) == CHOOSE i \in Ids \ DOMAIN h : \A j \in Ids \ DOMAIN h : i <= j

Restrict(h, live) == [i \in live |-> h[i]]

----------------------------------------------------------------------------
(* Session state of a Fitter.                                              *)

VARIABLES
    has_ipython,     \* module constant has_ipython (lines 12-20)
    phase,           \* "new": not constructed, "live", "dead": __init__ raised
    data,            \* self._data
    kwargs,          \* self.kwargs: the session bindings
    model,           \* self._model
    heap,            \* the ParameterSet objects the session references
    current_params,  \* self._current_params: a reference into heap
    current_result,  \* self.current_result: NoResult or [params |-> reference]
    view,            \* self.param_widgets: name -> value shown
    symtable,        \* self.asteval.symtable
    guess_disabled,  \* self.guess_button.disabled
    fit_args,        \* keyword arguments Model.fit got, if the latest operation was a fit
    last             \* the latest operation: what it was and how it ended

vars == <<has_ipython, phase, data, kwargs, model, heap,
          current_params, current_result, view, symtable, guess_disabled,
          fit_args, last>>

\* rendered: how many times the operation called plot()
Done(op, raised, rendered, ov) ==
    [op |-> op, raised |-> raised, rendered |-> rendered, overrides |-> ov]

\* the bindings a session is constructed with: none, or x, y and foo
KwargsChoices ==
    { EmptyMap, ("x" :> Arg(0)) @@ ("y" :> Arg(0)) @@ ("foo" :> Arg(0)) }

\* the widgets the user edits
EditNames == {"a"}

OverrideChoices ==
    {EmptyMap} \cup { (n :> Arg(v)) : n \in {"foo", "a", "x"}, v \in 1..MaxOverride }

Init ==
    /\ has_ipython \in BOOLEAN
    /\ phase = "new"
    /\ data = 0
    /\ kwargs = EmptyMap
    /\ model = "unset"
    /\ heap = EmptyMap
    /\ current_params = 0
    /\ current_result = NoResult
    /\ view = EmptyMap
    /\ symtable = EmptyMap
    /\ guess_disabled = FALSE
    /\ fit_args = EmptyMap
    /\ last = Done("none", "none", 0, EmptyMap)

\* lines 168 and 177-178: the flag guess() writes to the Auto-Guess button
GuessingDisabled(count_indep_vars, not_implemented) == not_implemented

GuessTargetEarly(raised, old, new) == new

\* line 187 is reached only when nothing raised before it
GuessTarget(raised, old, new) == IF raised = "none" THEN new ELSE old

\* lines 181-187 of guess(): the raw guess is resolved and, if nothing
\* raised, assigned to current_params
GuessResolve(guess, ipy, h, cp, st, v, flag) ==
    LET r == Resolve(guess, st, Names(h[cp]))
        h1 == IF r.read
              THEN [h EXCEPT ![cp] = SyncFromView(h[cp], v, ipy)]
              ELSE h
        new == Fresh(h1)
        to == GuessTarget(r.raised, cp, new)
        h2 == h1 @@ (new :> r.params)
    IN  [raised |-> r.raised,
         heap |-> h2,
         current_params |-> to,
         view |-> IF to = new THEN PushToView(h2[to], v, ipy) ELSE v,
         symtable |-> r.symtable,
         guess_disabled |-> flag,
         trace |-> r.trace,
         built |-> r.params]

\* Fitter.guess(): the fields it leaves behind and the error it raised
GuessCall(m, d, kw, ipy, h, cp, st, v, gd) ==
    LET spec == ModelSpec(m)
        n == Len(spec.independent_vars)
        missing == n = 1 /\ spec.independent_vars[1] \notin DOMAIN kw
        called == n <= 1 /\ ~missing
        not_implemented == called /\ ~spec.has_guess
        same == [raised |-> "none", heap |-> h, current_params |-> cp, view |-> v,
                 symtable |-> st, guess_disabled |-> gd, trace |-> <<>>, built |-> <<>>]
    IN  IF missing THEN [same EXCEPT !.raised = "KeyError"]
        ELSE IF ~ipy THEN [same EXCEPT !.raised = "AttributeError"]
        ELSE LET flag == GuessingDisabled(n, not_implemented) IN
             IF ~(called /\ spec.has_guess)
             THEN [same EXCEPT !.raised = "UnboundLocalError", !.guess_disabled = flag]
             ELSE GuessResolve(ModelGuess(m, d), ipy, h, cp, st, v, flag)

LiveRefs(cp, res) == {cp} \cup (IF res = NoResult THEN {} ELSE {res.params})

BindResultKept(old) == old

\* line 131
BindResult(old) == NoResult

BindSymtableKept(old) == old

\* line 135: a new Interpreter, whose symbol table holds no parameter
BindSymtable(old) == EmptyMap

\* Fitter.model setter (lines 118-146) for model m, data d, bindings kw.
\* The drop-down menu and the closing and display of widgets (lines 124-125,
\* 139, 142-144) touch no field of the session and are left out.
BindCall(m, d, kw, op) ==
    \E g \in {GuessCall(m, d, kw, has_ipython, (1 :> MakeParams(m)), 1,
                         BindSymtable(symtable),
                         IF has_ipython THEN BuildWidgets(MakeParams(m)) ELSE view,
                         guess_disabled)},
       res \in {BindResult(current_result)} :
        /\ model' = m
        /\ current_result' = res
        /\ current_params' = g.current_params
        /\ heap' = Restrict(g.heap @@ heap, LiveRefs(g.current_params, res))
        /\ view' = g.view
        /\ symtable' = g.symtable
        /\ guess_disabled' = g.guess_disabled
        /\ last' = Done(op, g.raised, 0, EmptyMap)
        /\ phase' = IF op = "construct" /\ g.raised # "none" THEN "dead" ELSE "live"

\* Fitter.__init__(data, model, **kwargs), lines 75-95
Construct(d, m, kw) ==
    /\ phase = "new"
    /\ data' = d
    /\ kwargs' = kw
    /\ BindCall(m, d, kw, "construct")
    /\ fit_args' = EmptyMap
    /\ UNCHANGED <<has_ipython>>

\* fitter.model = m
Bind(m) ==
    /\ phase = "live"
    /\ BindCall(m, data, kwargs, "bind")
    /\ fit_args' = EmptyMap
    /\ UNCHANGED <<has_ipython, data, kwargs>>

\* fitter.guess(), also the Auto-Guess button
Guess ==
    /\ phase = "live"
    /\ \E g \in {GuessCall(model, data, kwargs, has_ipython, heap, current_params,
                            symtable, view, guess_disabled)} :
           /\ current_params' = g.current_params
           /\ heap' = Restrict(g.heap, LiveRefs(g.current_params, current_result))
           /\ view' = g.view
           /\ symtable' = g.symtable
           /\ guess_disabled' = g.guess_disabled
           /\ last' = Done("guess", g.raised, 0, EmptyMap)
    /\ fit_args' = EmptyMap
    /\ UNCHANGED <<has_ipython, phase, data, kwargs, model,
                   current_result>>

\* Fitter.plot(), lines 232-257: the error it raises, "none" if it returns
PlotCall(m, kw, mpl) ==
    LET iv == ModelSpec(m).independent_vars IN
    IF ~mpl THEN "UnboundLocalError"
    ELSE IF Len(iv) = 0 THEN "none"
    ELSE IF Len(iv) = 1 THEN (IF iv[1] \in DOMAIN kw THEN "none" ELSE "KeyError")
    ELSE "NotImplementedError"

FitArgumentsSwapped(params, kw, overrides) ==
    DictUpdate(DictUpdate(ParamDict(params), overrides), kw)

\* lines 225-227: the keyword arguments fit() hands to Model.fit
FitArguments(params, kw, overrides) ==
    DictUpdate(DictUpdate(ParamDict(params), kw), overrides)

AfterFitParamsStale(result, old) == old

\* line 229: what fit() assigns to current_params
AfterFitParams(result, old) == result.params

KwargsAfterFitMerged(kw, overrides) == DictUpdate(kw, overrides)

\* fit() reads self.kwargs (line 226) and never writes it
KwargsAfterFit(kw, overrides) == kw

FitRendersAlways(fit_returned) == 1

\* line 230: fit() calls plot() once, as its last statement, which it
\* reaches only when Model.fit returned (line 228)
FitRenders(fit_returned) == IF fit_returned THEN 1 ELSE 0

\* the state fit() leaves when Model.fit returned: [heap, current_params,
\* current_result], lines 228-229
FitDone(h1, cp) ==
    LET id == Fresh(h1)
        res == [params |-> id]
        to == AfterFitParams(res, cp)
    IN  [heap |-> Restrict(h1 @@ (id :> ModelFit(model, data)), LiveRefs(to, res)),
         current_params |-> to,
         current_result |-> res]

\* Fitter.fit(**overrides); converges says whether the minimizer succeeds,
\* mpl whether the import of line 234 does
Fit(overrides, converges, mpl) ==
    /\ phase = "live"
    /\ \E h1 \in {[heap EXCEPT ![current_params] =
                      SyncFromView(heap[current_params], view, has_ipython)]} :
       \E args \in {FitArguments(h1[current_params], kwargs, overrides)} :
           /\ fit_args' = args
           /\ kwargs' = KwargsAfterFit(kwargs, overrides)
           /\ IF converges /\ ModelCanFit(model, args)
              THEN \E f \in {FitDone(h1, current_params)} :
                   /\ current_result' = f.current_result
                   /\ current_params' = f.current_params
                   /\ heap' = f.heap
                   /\ view' = PushToView(f.heap[f.current_params], view, has_ipython)
                   /\ last' = Done("fit", PlotCall(model, kwargs', mpl),
                                   FitRenders(TRUE), overrides)
              ELSE /\ heap' = h1
                   /\ last' = Done("fit", "FitError", FitRenders(FALSE), overrides)
                   /\ UNCHANGED <<current_result, current_params, view>>
    /\ UNCHANGED <<has_ipython, phase, data, model, symtable,
                   guess_disabled>>

\* fitter.plot() on demand; mpl says whether the import of line 234 succeeds
Plot(mpl) ==
    /\ phase = "live"
    /\ last' = Done("plot", PlotCall(model, kwargs, mpl), 1, EmptyMap)
    /\ fit_args' = EmptyMap
    /\ UNCHANGED <<has_ipython, phase, data, kwargs, model, heap,
                   current_params, current_result, view, symtable, guess_disabled>>

\* fitter.data = d (lines 110-112)
SetData(d) ==
    /\ phase = "live"
    /\ data' = d
    /\ last' = Done("set_data", "none", 0, EmptyMap)
    /\ fit_args' = EmptyMap
    /\ UNCHANGED <<has_ipython, phase, kwargs, model, heap, current_params,
                   current_result, view, symtable, guess_disabled>>

\* the user types value v into the widget of parameter n
EditView(n, v) ==
    /\ phase = "live"
    /\ has_ipython
    /\ n \in DOMAIN view
    /\ view' = [view EXCEPT ![n] = v]
    /\ last' = Done("edit_view", "none", 0, EmptyMap)
    /\ fit_args' = EmptyMap
    /\ UNCHANGED <<has_ipython, phase, data, kwargs, model, heap, current_params,
                   current_result, symtable, guess_disabled>>

Next ==
    \/ \E d \in DataVals, m \in ModelNames, kw \in KwargsChoices : Construct(d, m, kw)
    \/ \E m \in ModelNames : Bind(m)
    \/ Guess
    \/ \E ov \in OverrideChoices, c \in BOOLEAN :
          \E mpl \in (IF c THEN BOOLEAN ELSE {TRUE}) : Fit(ov, c, mpl)
    \/ \E mpl \in BOOLEAN : Plot(mpl)
    \/ \E d \in DataVals : SetData(d)
    \/ \E n \in EditNames, v \in 1..MaxViewVal : EditView(n, v)

Spec == Init /\ [][Next]_vars

----------------------------------------------------------------------------
(* The resolver over a family of models.  A model of the family declares   *)
(* the parameters a, b and c in some order; each is free or is computed    *)
(* from one of a few expressions, so the family holds chains, shared       *)
(* dependencies, names that are no parameter, constants, and cycles        *)
(* (c = c + 1;                                                             *)
(* a = b + c with b = a + a).  The session starts where the model setter   *)
(* stands before line 146: the model is bound, current_params is its       *)
(* make_params(), the symbol table is new and the widgets are built.  Then *)
(* guess() runs, again and again, and the data change.  In this            *)
(* specification the variable model holds the declaration itself.          *)

ExprChoices ==
    { NoExpr, <<"a", "+", "b">>, <<"b", "+", "c">>, <<"c", "+", "1">>,
      <<"a", "+", "a">>, <<"z", "+", "1">>, <<"1">> }

NameOrders ==
    { o \in [1..3 -> {"a", "b", "c"}] : \A i, j \in 1..3 : i # j => o[i] # o[j] }

FreeKind(n) == IF n = "b" THEN "const" ELSE "data"

Family ==
    { [i \in 1..3 |-> PSpec(o[i], e[i], IF e[i] = NoExpr THEN FreeKind(o[i]) ELSE "expr")] :
        o \in NameOrders, e \in [1..3 -> ExprChoices] }

\* the outcome of an operation, with the steps of its pass and the
\* ParameterSet the pass was building, as the pass left it
ResolverDone(op, raised, trace, built) ==
    [op |-> op, raised |-> raised, rendered |-> 0, overrides |-> EmptyMap,
     trace |-> trace, built |-> built]

ResolverInit ==
    /\ has_ipython = TRUE
    /\ phase = "live"
    /\ data \in DataVals
    /\ kwargs = EmptyMap
    /\ model \in Family
    /\ heap = (1 :> DeclParams(model))
    /\ current_params = 1
    /\ current_result = NoResult
    /\ view = BuildWidgets(DeclParams(model))
    /\ symtable = EmptyMap
    /\ guess_disabled = FALSE
    /\ fit_args = EmptyMap
    /\ last = ResolverDone("set_model", "none", <<>>, <<>>)

\* guess() on a model without independent variables that implements guess
ResolverGuess ==
    /\ \E g \in {GuessResolve(DeclGuess(model, data), has_ipython, heap, current_params,
                               symtable, view, FALSE)} :
           /\ current_params' = g.current_params
           /\ heap' = Restrict(g.heap, LiveRefs(g.current_params, current_result))
           /\ view' = g.view
           /\ symtable' = g.symtable
           /\ guess_disabled' = g.guess_disabled
           /\ last' = ResolverDone("guess", g.raised, g.trace, g.built)
    /\ UNCHANGED <<has_ipython, phase, data, kwargs, model, current_result, fit_args>>

ResolverSetData(d) ==
    /\ data' = d
    /\ last' = ResolverDone("set_data", "none", <<>>, <<>>)
    /\ UNCHANGED <<has_ipython, phase, kwargs, model, heap, current_params,
                   current_result, view, symtable, guess_disabled, fit_args>>

ResolverNext ==
    \/ ResolverGuess
    \/ \E d \in DataVals : ResolverSetData(d)

ResolverSpec == ResolverInit /\ [][ResolverNext]_vars

----------------------------------------------------------------------------
(* Properties.                                                             *)

\* what reading fitter.current_params returns (lines 153-157)
Observed == SyncFromView(heap[current_params], view, has_ipython)

GuessOps == {"construct", "bind", "guess"}

HasExpr(par) == par.expr # NoExpr

MalformedExpr(m) ==
    \E i \in DOMAIN ModelSpec(m).params :
        /\ ModelSpec(m).params[i].expr # NoExpr
        /\ ~Parse(ModelSpec(m).params[i].expr).ok

MissingBinding(m, kw) ==
    /\ Len(ModelSpec(m).independent_vars) = 1
    /\ ModelSpec(m).independent_vars[1] \notin DOMAIN kw

\* C1: immediately after a fit() that returned normally, current_params is
\* the very ParameterSet object that current_result.params denotes, and that
\* object is the one Model.fit returned for the current data.
C1_FitParamsAreResultParams ==
    (last.op = "fit" /\ last.raised = "none") =>
        /\ current_result # NoResult
        /\ current_params = current_result.params
        /\ heap[current_params] = ModelFit(model, data)

C1_Witness ==
    /\ last.op = "fit" /\ last.raised = "none"
    /\ model = "Sum" /\ data = 10
    /\ current_result # NoResult
    /\ current_params = current_result.params
    /\ Lookup(heap[current_params], "c").value = 14

\* C2: a model assignment (the first, in __init__, or a later one, whatever
\* it ran into) leaves current_result None, and a step that takes
\* current_result from None to a Result is a fit().
C2_BindResetsResult ==
    [][ /\ (last'.op \in {"construct", "bind"} => current_result' = NoResult)
        /\ (current_result = NoResult /\ current_result' # NoResult => last'.op = "fit")
      ]_vars

C2_Witness ==
    /\ last.op = "bind"
    /\ phase = "live"
    /\ model = "Sum"
    /\ current_result = NoResult
    /\ symtable # EmptyMap

C4_FitKeepsBindings ==
    [][ last'.op = "fit" => kwargs' = kwargs ]_vars

C4_Witness ==
    /\ last.op = "fit"
    /\ last.raised # "none"
    /\ "foo" \in DOMAIN last.overrides
    /\ "foo" \in DOMAIN kwargs
    /\ kwargs["foo"] = Arg(0)
    /\ last.overrides["foo"] # Arg(0)

\* C5 (as claimed): whenever fit() raises, because Model.fit failed or because
\* the render step met a model with two or more independent variables or a
\* missing binding, current_params and current_result are what they were
\* before the call.
C5_FailedFitChangesNothing ==
    [][ (last'.op = "fit"
           /\ last'.raised \in {"FitError", "NotImplementedError", "KeyError"}) =>
          /\ current_params' = current_params
          /\ current_result' = current_result
      ]_vars

GuessErrors == {"ParseError", "EvalError", "KeyError"}

\* C6 (as claimed): when a guess fails on a malformed expression, at
\* evaluation or on a missing binding, current_params reads the same as before
\* the call that triggered the guess, a model assignment included.
C6_FailedGuessKeepsParams ==
    [][ (last'.op \in {"bind", "guess"} /\ last'.raised \in GuessErrors) =>
          Observed' = Observed
      ]_vars

\* What the code does guarantee about a failed guess: a guess over a
\* malformed expression raises the parse error and one without the binding of
\* the single independent variable raises the missing-key error; when guess()
\* itself was called and failed in one of the three ways, current_params is
\* the same object and reads the same as before; when a model assignment ran
\* the guess, current_params is the make_params() set of the new model, which
\* the assignment installed before guessing.
FailedGuessKeepsParamsOfGuess ==
    [][ /\ (last'.op \in {"bind", "guess"} /\ MissingBinding(model', kwargs))
              => last'.raised = "KeyError"
        /\ (last'.op \in {"bind", "guess"} /\ MalformedExpr(model')
              /\ ~MissingBinding(model', kwargs) /\ ModelSpec(model').has_guess
              /\ Len(ModelSpec(model').independent_vars) <= 1)
              => last'.raised = "ParseError"
        /\ (last'.op = "guess" /\ last'.raised \in GuessErrors)
              => /\ current_params' = current_params
                 /\ Observed' = Observed
        /\ (last'.op = "bind" /\ last'.raised \in GuessErrors)
              => Observed' = SyncFromView(MakeParams(model'),
                                          BuildWidgets(MakeParams(model')), TRUE)
      ]_vars

FailedGuessWitness ==
    /\ last.op = "guess"
    /\ last.raised = "ParseError"
    /\ model = "BadExpr"
    /\ Lookup(Observed, "a").value = MaxViewVal

\* C7 (as claimed): in a session with its widgets, after binding, or calling
\* guess() on, a model with two or more independent variables the
\* guess-disabled flag is true and nothing was raised.
C7_TwoIndependentVarsDisableGuess ==
    (last.op \in {"bind", "guess"} /\ has_ipython
       /\ Len(ModelSpec(model).independent_vars) >= 2)
    => (guess_disabled = TRUE /\ last.raised = "none")

\* C8 (as claimed): in a session with its widgets, when the model's guess
\* signals "not implemented", the guess is marked disabled and guess()
\* returns without an error.
C8_NotImplementedDisablesGuess ==
    (last.op \in {"bind", "guess"} /\ has_ipython
       /\ ~ModelSpec(model).has_guess
       /\ Len(ModelSpec(model).independent_vars) <= 1
       /\ ~MissingBinding(model, kwargs))
    => (guess_disabled = TRUE /\ last.raised = "none")

\* C9: after a guess that returned normally (called directly or by a model
\* assignment), every expression parameter of current_params has a value.
C9_ExprParamsHaveValues ==
    (last.op \in GuessOps /\ last.raised = "none") =>
        \A i \in DOMAIN heap[current_params] :
            HasExpr(heap[current_params][i]) => heap[current_params][i].value # None

C9_Witness ==
    /\ last.op = "bind" /\ last.raised = "none"
    /\ model = "Chain"
    /\ Lookup(heap[current_params], "d").expr = <<"c", "+", "1">>
    /\ Lookup(heap[current_params], "d").value = 2 * data + 1

\* C10: for c = a + b over the free parameters a and b, a resolution pass
\* leaves c equal to the sum of the values a and b have in that pass, a being
\* the value guessed from the current data: 5 for a = 2, b = 3, and 13 once
\* the data make a = 10.
C10_SumFollowsFreeParams ==
    (last.op \in GuessOps /\ last.raised = "none" /\ model = "Sum") =>
        LET ps == heap[current_params] IN
        /\ Lookup(ps, "a").value = data
        /\ Lookup(ps, "c").value = Lookup(ps, "a").value + Lookup(ps, "b").value
        /\ (data = 2 => Lookup(ps, "c").value = 5)
        /\ (data = 10 => Lookup(ps, "c").value = 13)

C10_Witness ==
    /\ last.op = "guess" /\ last.raised = "none"
    /\ model = "Sum" /\ data = 10
    /\ Lookup(heap[current_params], "c").value = 13
    /\ current_result # NoResult
    /\ Lookup(heap[current_result.params], "a").value = 3
    /\ Lookup(heap[current_result.params], "c").value = 6

----------------------------------------------------------------------------
(* Properties of the resolver, over the family of models (ResolverSpec).   *)

\* the parameters the expression of parameter n of a declaration names
RefsOf(decl, n) ==
    {Lookup(decl, n).expr[i] : i \in DOMAIN Lookup(decl, n).expr} \cap Names(decl)

RECURSIVE ReachFrom(_, _, _)
ReachFrom(decl, set, k) ==
    IF k = 0 THEN set
    ELSE ReachFrom(decl, set \cup UNION {RefsOf(decl, n) : n \in set}, k - 1)

\* parameter n depends, directly or transitively, on itself
DependsOnItself(decl, n) == n \in ReachFrom(decl, RefsOf(decl, n), Len(decl))

Acyclic(decl) == \A n \in Names(decl) : ~DependsOnItself(decl, n)

ValuesOf(ps) == [n \in Names(ps) |-> Lookup(ps, n).value]

\* C11: when no expression parameter of the model depends on itself, a
\* guess() that follows a guess() directly (same data, hence the same free
\* values, and the symbol table the first pass left) ends as the first did,
\* and if that one returned, every parameter has the value it had after it.
C11_ResolveTwiceSameValues ==
    [][ (Acyclic(model) /\ last.op = "guess" /\ last'.op = "guess") =>
          /\ last'.raised = last.raised
          /\ ValuesOf(heap'[current_params']) = ValuesOf(heap[current_params])
      ]_vars

\* a second pass (the first one left current_params at reference 2, the
\* second at 1) over a = b + c, b = c + 1 with c = 10 from the data
C11_Witness ==
    /\ last.op = "guess" /\ last.raised = "none"
    /\ current_params = 1
    /\ model = << PSpec("a", <<"b", "+", "c">>, "expr"),
                  PSpec("b", <<"c", "+", "1">>, "expr"),
                  PSpec("c", NoExpr, "data") >>
    /\ Acyclic(model)
    /\ symtable = [n \in {"a", "b", "c"} |-> CASE n = "a" -> 21 [] n = "b" -> 11 [] n = "c" -> 10]
    /\ ValuesOf(heap[current_params]) = symtable

\* the position in trace t of the latest step before k that a call no deeper
\* than the one of step k took, 0 if there is none: the steps after it and
\* before k were all taken by calls made from the call of step k
CallStart(t, k) ==
    LET before == {i \in 1..(k - 1) : t[i].depth <= t[k].depth} IN
    IF before = {} THEN 0 ELSE CHOOSE i \in before : \A j \in before : j <= i

\* C14: whenever line 217 evaluates the expression of a parameter p, the
\* call that does so has, since it began, and for every parameter d that the
\* expression names, made a call that wrote the value of d to the symbol
\* table, after evaluating the expression of d if d has one.
C14_DepsResolvedFirst ==
    last.op = "guess" =>
        \A k \in DOMAIN last.trace :
            last.trace[k].ev = "eval" =>
                \A d \in RefsOf(model, last.trace[k].name) :
                    \E j \in (CallStart(last.trace, k) + 1)..(k - 1) :
                        /\ last.trace[j] = Event("write", d, last.trace[k].depth + 1)
                        /\ HasExpr(Lookup(model, d)) =>
                               /\ j - 1 > CallStart(last.trace, k)
                               /\ last.trace[j - 1] = Event("eval", d, last.trace[k].depth + 1)

\* a = b + c, b = c + 1, c free: the call for a resolves b (which resolves
\* c) and c before it evaluates a; b then has a value and the loop of
\* guess() passes over it
C14_Witness ==
    /\ last.op = "guess" /\ last.raised = "none"
    /\ model = << PSpec("a", <<"b", "+", "c">>, "expr"),
                  PSpec("b", <<"c", "+", "1">>, "expr"),
                  PSpec("c", NoExpr, "data") >>
    /\ last.trace = << Event("write", "c", 3), Event("eval", "b", 2), Event("write", "b", 2),
                       Event("write", "c", 2), Event("eval", "a", 1), Event("write", "a", 1) >>

\* some expression of the declaration names something that is no parameter
NamesUnbound(decl) ==
    \E i \in DOMAIN decl : \E k \in DOMAIN decl[i].expr :
        decl[i].expr[k] \in NameTokens \ Names(decl)

\* no step of the trace evaluated the expression of a parameter of a cycle
NoCycleEvaluated(decl, t) ==
    \A k \in DOMAIN t : t[k].ev = "eval" => ~DependsOnItself(decl, t[k].name)

\* C15 (as claimed): a guess() over dependency lists with a cycle does not
\* come to an end once it reaches the cycle, neither by returning nor by an
\* error of the recursion; it can only have ended before, on an expression
\* that cannot be evaluated; and it evaluates no expression of the cycle.
C15_CycleRecursesForever ==
    (last.op = "guess" /\ ~Acyclic(model)) =>
        /\ last.raised = "EvalError"
        /\ NoCycleEvaluated(model, last.trace)

\* C15 (amended): there is no cycle guard, and a guess() over dependency
\* lists with a cycle never returns normally: the calls of
\* __update_paramval nest until the interpreter's recursion limit ends them
\* with a recursion error (or an expression outside the cycle fails first,
\* which needs a name that is no parameter); no expression of the cycle is
\* evaluated, and guess() does not assign current_params.
C15_CycleExhaustsRecursion ==
    [][ (last'.op = "guess" /\ ~Acyclic(model)) =>
          /\ last'.raised \in {"RecursionError", "EvalError"}
          /\ ~NamesUnbound(model) => last'.raised = "RecursionError"
          /\ NoCycleEvaluated(model, last'.trace)
          /\ current_params' = current_params
      ]_vars

\* b = c + 1 is evaluated, then the call for a = a + a nests until the
\* recursion limit
C15_Witness ==
    /\ last.op = "guess" /\ last.raised = "RecursionError"
    /\ model = << PSpec("b", <<"c", "+", "1">>, "expr"),
                  PSpec("a", <<"a", "+", "a">>, "expr"),
                  PSpec("c", NoExpr, "data") >>
    /\ DependsOnItself(model, "a")
    /\ last.trace = << Event("write", "c", 2), Event("eval", "b", 1), Event("write", "b", 1) >>
    /\ Lookup(Observed, "a").value = WidgetDefault

\* where token n first occurs in the expression e
FirstPos(e, n) == CHOOSE k \in DOMAIN e : e[k] = n /\ \A j \in DOMAIN e : e[j] = n => k <= j

----------------------------------------------------------------------------
(* Properties of the session (Spec): the view, the render step, the symbol *)
(* table.                                                                  *)

\* guess() or fit() assigned current_params in the latest operation
WroteParams(l) ==
    \/ l.op \in GuessOps /\ l.raised = "none"
    \/ l.op = "fit" /\ l.rendered > 0

\* C12: in a session with its widgets, (read) there is a widget for every
\* parameter and current_params reads, name by name, the value its widget
\* shows, and the set a failed Model.fit leaves behind holds those values;
\* (write) when guess() or fit() has assigned current_params, every widget
\* shows the value of its parameter in the new set; (fit) every parameter
\* that fit() passes on without a binding or an override carries the value
\* its widget showed when fit() was called.
C12_ViewIsSourceOfTruth ==
    [][ (has_ipython /\ phase' = "live") =>
          /\ DOMAIN view' = Names(heap'[current_params'])
          /\ ValuesOf(Observed') = view'
          /\ (last'.op = "fit" /\ last'.rendered = 0) =>
                 /\ current_params' = current_params
                 /\ ValuesOf(heap'[current_params']) = view
          /\ WroteParams(last') => view' = ValuesOf(heap'[current_params'])
          /\ last'.op = "fit" =>
                 \A n \in DOMAIN view \ (DOMAIN kwargs \cup DOMAIN last'.overrides) :
                     fit_args'[n].value = view[n]
      ]_vars

\* the user typed 1 over the guess a = 10; fit() started from 1 and the
\* widget then shows the fitted 11
C12_Witness ==
    /\ has_ipython
    /\ last.op = "fit" /\ last.rendered = 1
    /\ model = "Sum" /\ data = 10
    /\ fit_args["a"].value = 1
    /\ view["a"] = 11
    /\ view["c"] = 14

\* a model whose guess can be completed: it implements guess, has at most
\* one independent variable, bound in the session, and expressions that
\* can be evaluated
CanGuess(m, kw) ==
    /\ ModelSpec(m).has_guess
    /\ ModelSpec(m).fits
    /\ Len(ModelSpec(m).independent_vars) <= 1
    /\ ~MissingBinding(m, kw)

\* C13 (as claimed): without IPython no view is ever built, and constructing
\* the session with a model whose guess can be completed, and calling
\* guess() on it, return normally and leave the session usable.
C13_RunsWithoutView ==
    ~has_ipython =>
        /\ view = EmptyMap
        /\ (last.op \in GuessOps /\ CanGuess(model, kwargs)) =>
               /\ last.raised = "none"
               /\ phase = "live"
               /\ \A i \in DOMAIN heap[current_params] :
                      heap[current_params][i].value # None

\* C18: a fit() whose Model.fit returned called plot() exactly once, and
\* the session that call saw (nothing in fit() follows it, and plot() writes
\* no field) has the Result of this fit as current_result and that
\* Result's params as current_params; a fit() whose Model.fit raised did
\* not call plot() and left current_result as it was.
C18_RenderOncePerFit ==
    [][ last'.op = "fit" =>
          IF last'.raised = "FitError"
          THEN /\ last'.rendered = 0
               /\ current_result' = current_result
          ELSE /\ last'.rendered = 1
               /\ current_result' # NoResult
               /\ current_params' = current_result'.params
               /\ heap'[current_result'.params] = ModelFit(model, data)
      ]_vars

\* a second fit, after new data: plot() ran once and saw the new Result
C18_Witness ==
    /\ last.op = "fit" /\ last.raised = "none" /\ last.rendered = 1
    /\ model = "Chain" /\ data = 10
    /\ current_params = current_result.params
    /\ ValuesOf(heap[current_params]) = [n \in {"a", "c", "d"} |->
            CASE n = "a" -> 11 [] n = "c" -> 22 [] n = "d" -> 23]
    /\ symtable["a"] = 2

\* C19: after a model assignment the symbol table holds entries for
\* parameters of the new model only, each written by the guess of this
\* assignment: a free parameter's entry is its newly guessed value, an
\* expression parameter's entry is the value the guess gave it (none if
\* the guess failed before giving it one); nothing an earlier binding wrote
\* is left.  A guess() within a binding starts from the table as it is and
\* drops no entry.
C19_BindingScopesSymtable ==
    [][ /\ last'.op \in {"construct", "bind"} =>
              /\ DOMAIN symtable' \subseteq Names(MakeParams(model'))
              /\ \A n \in DOMAIN symtable' :
                    IF ~HasExpr(Lookup(MakeParams(model'), n))
                    THEN symtable'[n] = Lookup(ModelGuess(model', data'), n).value
                    ELSE symtable'[n] = IF last'.raised = "none"
                                        THEN Lookup(heap'[current_params'], n).value
                                        ELSE None
        /\ last'.op = "guess" => DOMAIN symtable \subseteq DOMAIN symtable'
      ]_vars

\* Line is assigned to a session that was constructed before: Line has no
\* expression, its guess writes nothing, and the table is empty whatever
\* the session held
C19_Witness ==
    /\ last.op = "bind" /\ last.raised = "none"
    /\ model = "Line"
    /\ symtable = EmptyMap
    /\ Lookup(heap[current_params], "a").value = data

\* C17 (as claimed): the value of an expression parameter of current_params
\* changes only when guess() or fit() installs a set whose expressions were
\* evaluated: after a model assignment whose guess failed it is still
\* without a value, as make_params() left it, and any other step (a read of
\* current_params by a failing fit(), a widget edit, a plot, new data)
\* leaves it as it was.
C17_OnlyResolverWritesExprValues ==
    [][ (phase' = "live" /\ ~WroteParams(last')) =>
          \A i \in DOMAIN heap'[current_params'] :
              LET p == heap'[current_params'][i] IN
              HasExpr(p) =>
                  IF last'.op \in {"construct", "bind"}
                  THEN p.value = None
                  ELSE p.value = Lookup(heap[current_params], p.name).value
      ]_vars

====
